---- MODULE Spec2Model ----
(***************************************************************************)
(* Model of awto-cli's `compile database` command                          *)
(* (awto-cli/src/compile/database.rs).                                     *)
(*                                                                         *)
(* Text is modelled as sequences: an identifier is a sequence of           *)
(* one-character strings, a line of generated text is a sequence of        *)
(* string fragments, a file's content is a sequence of lines.              *)
(***************************************************************************)
EXTENDS Integers, Sequences, FiniteSets, TLC

\* ------------------------------------------------------------------ bounds
MaxRuns == 2
MaxItems == 2
MaxTokens == 3
MaxNameLen == 3
MaxModels == 2

\* --------------------------------------------------------------- processes
Procs == {1, 2}

\* ------------------------------------------------------------------- paths
ROOT == "."
AWTO_DIR == "./awto"
DATABASE_DIR == "./awto/database"
DATABASE_SRC_DIR == "./awto/database/src"
DATABASE_CARGO_PATH == "./awto/database/Cargo.toml"
DATABASE_BUILD_PATH == "./awto/database/build.rs"
DATABASE_LIB_PATH == "./awto/database/src/lib.rs"
\* entries a user (or an earlier build) may have left under the target
UNRELATED_FILE == "./awto/database/notes.txt"
UNRELATED_DIR == "./awto/database/target"
UNRELATED_SRC_FILE == "./awto/database/src/old.rs"

DATABASE_CARGO_TOML_BYTES == << <<"templates/database/Cargo.toml">> >>
DATABASE_BUILD_BYTES == << <<"templates/database/build.rs">> >>
StaleBytes == << <<"stale">> >>

CARGO_PKG_NAME == "awto-cli"
CARGO_PKG_VERSION == "CARGO_PKG_VERSION"

Paths ==
  { AWTO_DIR, DATABASE_DIR, DATABASE_SRC_DIR, DATABASE_CARGO_PATH,
    DATABASE_BUILD_PATH, DATABASE_LIB_PATH, UNRELATED_FILE, UNRELATED_DIR,
    UNRELATED_SRC_FILE }

Parent ==
  [ p \in Paths \cup {ROOT} |->
      CASE p = ROOT -> ROOT
        [] p = AWTO_DIR -> ROOT
        [] p = DATABASE_DIR -> AWTO_DIR
        [] p \in {DATABASE_LIB_PATH, UNRELATED_SRC_FILE} -> DATABASE_SRC_DIR
        [] OTHER -> DATABASE_DIR ]

\* q lies somewhere below p
Under(q, p) ==
  /\ q # p
  /\ \/ Parent[q] = p
     \/ Parent[Parent[q]] = p
     \/ Parent[Parent[Parent[q]]] = p

\* ------------------------------------------------------------- file system
Absent == [kind |-> "absent", data |-> <<>>]
Dir == [kind |-> "dir", data |-> <<>>]
File(d) == [kind |-> "file", data |-> d]

Exists(f, p) == IF p = ROOT THEN TRUE ELSE f[p].kind # "absent"

\* Path::is_dir
IsDir(f, p) == IF p = ROOT THEN TRUE ELSE f[p].kind = "dir"

WellFormed(f) == \A p \in Paths : Exists(f, p) => IsDir(f, Parent[p])

\* fs::remove_dir_all, when it succeeds
RemoveDirAllBroken(f, p) ==
  [q \in Paths |-> IF q = p THEN Absent ELSE f[q]]

RemoveDirAll(f, p) ==
  [q \in Paths |-> IF q = p \/ Under(q, p) THEN Absent ELSE f[q]]

\* fs::remove_dir_all, when it fails: any part of the subtree may be gone
\* already, the directory itself is still there
PartialRemovals(f, p) ==
  { g \in { [q \in Paths |-> IF q \in S THEN Absent ELSE f[q]] :
              S \in SUBSET {q \in Paths : Under(q, p) /\ Exists(f, q)} } :
      WellFormed(g) }

\* fs::create_dir succeeds only on a free name inside an existing directory
CanCreateDir(f, p) == ~Exists(f, p) /\ IsDir(f, Parent[p])

CreateDir(f, p) == [f EXCEPT ![p] = Dir]

\* fs::write creates or truncates a file inside an existing directory
CanWrite(f, p) == ~IsDir(f, p) /\ IsDir(f, Parent[p])

WriteFile(f, p, d) == [f EXCEPT ![p] = File(d)]

\* what a failed fs::write can leave behind: nothing new, or a truncated file
FailedWrites(f, p) ==
  IF CanWrite(f, p) THEN {f, WriteFile(f, p, <<>>)} ELSE {f}

\* the file systems a run may start from
InitialFileSystems ==
  { f \in [Paths -> {Absent, Dir, File(StaleBytes)}] :
      /\ WellFormed(f)
      /\ f[AWTO_DIR].kind # "file"
      /\ \A p \in {DATABASE_SRC_DIR, UNRELATED_DIR} : f[p].kind # "file"
      /\ \A p \in Paths \ {AWTO_DIR, DATABASE_DIR, DATABASE_SRC_DIR, UNRELATED_DIR} :
            f[p].kind # "dir" }

\* ------------------------------------------------------------------ errors
NoErr == [kind |-> "none", context |-> "", arg |-> ""]
Err(k, c, a) == [kind |-> k, context |-> c, arg |-> a]

\* -------------------------------------------------------------- characters
Uppers ==
  << "A", "B", "C", "D", "E", "F", "G", "H", "I", "J", "K", "L", "M",
     "N", "O", "P", "Q", "R", "S", "T", "U", "V", "W", "X", "Y", "Z" >>
Lowers ==
  << "a", "b", "c", "d", "e", "f", "g", "h", "i", "j", "k", "l", "m",
     "n", "o", "p", "q", "r", "s", "t", "u", "v", "w", "x", "y", "z" >>

IsUppercase(c) == \E i \in 1..Len(Uppers) : Uppers[i] = c
IsLowercase(c) == \E i \in 1..Len(Lowers) : Lowers[i] = c

\* char::to_lowercase on the characters above; digits and '_' have no case
ToLowercase(c) ==
  IF IsUppercase(c)
    THEN Lowers[CHOOSE i \in 1..Len(Uppers) : Uppers[i] = c]
    ELSE c

LowercaseWord(w) == [i \in 1..Len(w) |-> ToLowercase(w[i])]

\* --------------------------------------------------- heck::SnakeCase
\* The scan of heck's `transform`: `init` is where the current word starts,
\* `mode` is the case of the last cased character of the current word
\* ("boundary" when there is none yet), `out` is the text produced so far.
\* A word is emitted in lower case, words are joined by '_'.
EmitWord(first, out, w) ==
  IF first THEN LowercaseWord(w) ELSE out \o <<"_">> \o LowercaseWord(w)

RECURSIVE SnakeScan(_, _, _, _, _, _)
SnakeScan(s, i, init, mode, first, out) ==
  IF i > Len(s) THEN out
  ELSE
    LET c == s[i] IN
    IF c = "_"
      THEN SnakeScan(s, i + 1, IF init = i THEN init + 1 ELSE init, mode, first, out)
    ELSE IF i = Len(s)
      THEN EmitWord(first, out, SubSeq(s, init, Len(s)))
    ELSE
      LET next == s[i + 1]
          next_mode == IF IsLowercase(c) THEN "lowercase"
                       ELSE IF IsUppercase(c) THEN "uppercase"
                       ELSE mode
      IN
      IF next = "_" \/ (next_mode = "lowercase" /\ IsUppercase(next))
        THEN SnakeScan(s, i + 1, i + 1, "boundary", FALSE,
                       EmitWord(first, out, SubSeq(s, init, i)))
      ELSE IF mode = "uppercase" /\ IsUppercase(c) /\ IsLowercase(next)
        THEN SnakeScan(s, i + 1, i, "boundary", FALSE,
                       EmitWord(first, out, SubSeq(s, init, i - 1)))
      ELSE SnakeScan(s, i + 1, init, next_mode, first, out)

to_snake_case(s) == SnakeScan(s, 1, 1, "boundary", TRUE, <<>>)

\* ------------------------------------------------- schema source (syn tree)
\* A token tree of a macro's argument list (proc_macro2::TokenTree).
Ident(name) == [kind |-> "ident", text |-> name, inner |-> <<>>]
Punct(ch) == [kind |-> "punct", text |-> <<ch>>, inner |-> <<>>]
Literal(txt) == [kind |-> "literal", text |-> <<txt>>, inner |-> <<>>]
Group(toks) == [kind |-> "group", text |-> <<>>, inner |-> toks]

\* A syn::Item.  `path` holds the path segments of a macro invocation or of
\* a `use` declaration, `alias` the local name a `use` binds, `tokens` a
\* macro's arguments, `inner` the items nested inside a module.
ItemMacro(path, toks) ==
  [kind |-> "macro", path |-> path, tokens |-> toks, inner |-> <<>>, alias |-> ""]
ItemMod(items) ==
  [kind |-> "mod", path |-> <<>>, tokens |-> <<>>, inner |-> items, alias |-> ""]
ItemUse(path, alias) ==
  [kind |-> "use", path |-> path, tokens |-> <<>>, inner |-> <<>>, alias |-> alias]
ItemOther ==
  [kind |-> "other", path |-> <<>>, tokens |-> <<>>, inner |-> <<>>, alias |-> ""]

\* ./schema/src/lib.rs: whether it can be read, whether syn::parse_file
\* accepts it, and the top-level items of the parsed file
SchemaFile(items) == [readable |-> TRUE, parses |-> TRUE, items |-> items]
UnreadableSchema == [readable |-> FALSE, parses |-> FALSE, items |-> <<>>]
UnparseableSchema == [readable |-> TRUE, parses |-> FALSE, items |-> <<>>]

\* segments.map(ident.to_string()).collect().join("::")
RECURSIVE JoinPath(_)
JoinPath(segments) ==
  IF Len(segments) = 0 THEN <<>>
  ELSE IF Len(segments) = 1 THEN segments
  ELSE <<Head(segments), "::">> \o JoinPath(Tail(segments))

IsRegistrationNameQualifiedOnly(macro_name) ==
  macro_name = <<"awto", "::", "register_schemas">>

\* the test of line 150, negated
IsRegistrationName(macro_name) ==
  ~(/\ macro_name # <<"awto", "::", "register_schemas">>
    /\ macro_name # <<"register_schemas">>)

\* mac.tokens.into_iter().filter_map(Ident => Some(ident.to_string()))
RECURSIVE CollectIdentsDeep(_)
CollectIdentsDeep(toks) ==
  IF toks = <<>> THEN <<>>
  ELSE (IF Head(toks).kind = "ident" THEN <<Head(toks).text>>
        ELSE IF Head(toks).kind = "group" THEN CollectIdentsDeep(Head(toks).inner)
        ELSE <<>>) \o CollectIdentsDeep(Tail(toks))

RECURSIVE CollectIdents(_)
CollectIdents(toks) ==
  IF toks = <<>> THEN <<>>
  ELSE (IF Head(toks).kind = "ident" THEN <<Head(toks).text>> ELSE <<>>)
       \o CollectIdents(Tail(toks))

\* the closure given to find_map: Some(models) or None for one item
Found(models) == [some |-> TRUE, models |-> models]
None == [some |-> FALSE, models |-> <<>>]

RECURSIVE MatchItemNested(_)
MatchItemNested(item) ==
  IF item.kind = "macro"
    THEN IF IsRegistrationName(JoinPath(item.path))
           THEN Found(CollectIdents(item.tokens))
           ELSE None
  ELSE IF item.kind = "mod" /\ item.inner # <<>>
    THEN MatchItemNested(item.inner[1])
  ELSE None

MatchItemNonEmpty(item) ==
  IF item.kind = "macro"
    THEN IF ~IsRegistrationName(JoinPath(item.path))
              \/ CollectIdents(item.tokens) = <<>>
           THEN None
           ELSE Found(CollectIdents(item.tokens))
    ELSE None

MatchItem(item) ==
  IF item.kind = "macro"
    THEN IF ~IsRegistrationName(JoinPath(item.path))
           THEN None
           ELSE Found(CollectIdents(item.tokens))
    ELSE None

\* lib.items.into_iter().find_map(..): the first item the closure accepts

RECURSIVE FindMapLast(_)
FindMapLast(items) ==
  IF items = <<>> THEN None
  ELSE IF FindMapLast(Tail(items)).some THEN FindMapLast(Tail(items))
  ELSE MatchItem(Head(items))

RECURSIVE FindMap(_)
FindMap(items) ==
  IF items = <<>> THEN None
  ELSE IF MatchItem(Head(items)).some THEN MatchItem(Head(items))
  ELSE FindMap(Tail(items))

NoSchemasRegistered ==
  Err("NoRegistrationFound",
      "no schemas registered with the 'awto::register_schemas!' macro",
      "awto::register_schemas!(SchemaOne, SchemaTwo)")

\* Database::read_schema_models: Ok(models) or Err(err)
read_schema_models(file) ==
  IF ~file.readable
    THEN [err |-> Err("SchemaReadError", "could not read file", "./schema/src/lib.rs"),
          models |-> <<>>]
  ELSE IF ~file.parses
    THEN [err |-> Err("ParseError", "could not parse schema source code", ""),
          models |-> <<>>]
  ELSE IF FindMap(file.items).some
    THEN [err |-> NoErr, models |-> FindMap(file.items).models]
  ELSE [err |-> NoSchemasRegistered, models |-> <<>>]

\* ------------------------------------------------ generated src/lib.rs
LibHeader ==
  << <<"// This file is automatically @generated by ", CARGO_PKG_NAME, " v",
       CARGO_PKG_VERSION>>,
     <<>>,
     <<"pub use sea_orm;">>,
     <<>>,
     <<"include!(concat!(env!(\"OUT_DIR\"), \"/app.rs\"));">> >>

\* the four writeln! of the loop body (the first starts with a blank line)
ModelBlockRawInclude(model) ==
  << <<>>,
     <<"/// ">> \o model \o <<" database model">>,
     <<"pub mod ">> \o to_snake_case(model) \o <<" {">>,
     <<"    sea_orm::include_model!(\"">> \o model \o <<"\");">>,
     <<"}">> >>

ModelBlock(model) ==
  LET model_name == to_snake_case(model) IN
  << <<>>,
     <<"/// ">> \o model \o <<" database model">>,
     <<"pub mod ">> \o model_name \o <<" {">>,
     <<"    sea_orm::include_model!(\"">> \o model_name \o <<"\");">>,
     <<"}">> >>

RECURSIVE LibContentReversed(_)
LibContentReversed(models) ==
  IF models = <<>> THEN LibHeader
  ELSE LibContentReversed(Tail(models)) \o ModelBlock(Head(models))

RECURSIVE LibContentFromDistinct(_, _)
LibContentFromDistinct(lib_content, models) ==
  IF models = <<>> THEN lib_content
  ELSE IF \E k \in 1..Len(lib_content) :
            lib_content[k] = ModelBlock(Head(models))[3]
    THEN LibContentFromDistinct(lib_content, Tail(models))
  ELSE LibContentFromDistinct(lib_content \o ModelBlock(Head(models)), Tail(models))

RECURSIVE LibContentFrom(_, _)
LibContentFrom(lib_content, models) ==
  IF models = <<>> THEN lib_content
  ELSE LibContentFrom(lib_content \o ModelBlock(Head(models)), Tail(models))

\* lib_content after the loop of lines 106-125
LibContent(schema_models) == LibContentFrom(LibHeader, schema_models)

\* ------------------------------------------------------------------ inputs
UserAccount == <<"U", "s", "e", "r", "A", "c", "c", "o", "u", "n", "t">>
Post == <<"P", "o", "s", "t">>

\* ./schema/Cargo.toml as CargoFile::load sees it
ManifestUnloadable == [loads |-> FALSE, package |-> "none", name |-> ""]
ManifestNoPackage == [loads |-> TRUE, package |-> "none", name |-> ""]
ManifestNamed(n) == [loads |-> TRUE, package |-> "some", name |-> n]

Manifests ==
  { ManifestUnloadable, ManifestNoPackage, ManifestNamed("schema"),
    ManifestNamed("my_schema") }

\* the schema sources the runs are tried on
RunSchemas ==
  { UnreadableSchema,
    UnparseableSchema,
    SchemaFile(<<ItemOther>>),
    SchemaFile(<<ItemMacro(<<"awto", "register_schemas">>, <<Ident(UserAccount)>>)>>),
    SchemaFile(<<ItemUse(<<"awto", "register_schemas">>, "register_schemas"),
                 ItemMacro(<<"register_schemas">>,
                           <<Ident(Post), Punct(","), Ident(UserAccount)>>)>>) }

\* ------------------------------------------------------------------- state
VARIABLES
  fs,             \* the file system below the project root
  workspace,      \* packages appended to the workspace manifest
  builds,         \* packages handed to the build
  log,            \* lines written with info!
  runs,           \* invocations of the command so far
  prev,           \* how the invocation before the current one ended
  pc,             \* per invocation: the statement it is about to execute
  err,            \* per invocation: the Err it returned, NoErr otherwise
  cargo_file,     \* per invocation: `cargo_file` of run (line 31)
  schema_lib,     \* per invocation: the schema file as read (line 135)
  schema_models,  \* per invocation: `schema_models` (line 105)
  trace,          \* per invocation: the statements executed so far
  snap            \* per invocation: fs, workspace, builds, log when it started

vars ==
  << fs, workspace, builds, log, runs, prev, pc, err, cargo_file, schema_lib,
     schema_models, trace, snap >>

NoManifest == [loads |-> FALSE, package |-> "none", name |-> "-"]
NoSchema == [readable |-> FALSE, parses |-> FALSE, items |-> <<ItemOther>>]
NoRun == [status |-> "none", models |-> <<>>, schema |-> NoSchema]
Snapshot(f, w, b, l) == [fs |-> f, workspace |-> w, builds |-> b, log |-> l]

Init ==
  /\ fs \in InitialFileSystems
  /\ workspace = <<>>
  /\ builds = <<>>
  /\ log = <<>>
  /\ runs = 0
  /\ prev = NoRun
  /\ pc = [p \in Procs |-> "idle"]
  /\ err = [p \in Procs |-> NoErr]
  /\ cargo_file = [p \in Procs |-> NoManifest]
  /\ schema_lib = [p \in Procs |-> NoSchema]
  /\ schema_models = [p \in Procs |-> <<>>]
  /\ trace = [p \in Procs |-> <<>>]
  /\ snap = [p \in Procs |-> Snapshot(fs, <<>>, <<>>, <<>>)]

\* --------------------------------------------------------------- control
\* statement executed, the next one is `next`
Advance(p, next) ==
  /\ pc' = [pc EXCEPT ![p] = next]
  /\ trace' = [trace EXCEPT ![p] = Append(@, pc[p])]
  /\ err' = err

\* the statements of run and prepare_database_dir, in program order
Statements ==
  << "validate", "prepare_awto_dir", "is_dir", "remove_dir_all", "create_dir",
     "create_src_dir", "write_cargo", "write_build", "read_schema_models",
     "write_lib", "add_package_to_workspace", "build_awto_pkg", "info", "done" >>

StatementIndex(l) == CHOOSE i \in 1..Len(Statements) : Statements[i] = l

AbortKeepsGoing(p, e) ==
  /\ pc' = [pc EXCEPT ![p] = Statements[StatementIndex(pc[p]) + 1]]
  /\ trace' = [trace EXCEPT ![p] = Append(@, pc[p])]
  /\ err' = [err EXCEPT ![p] = e]

\* statement executed and failed: `?` returns the error to the caller
Abort(p, e) ==
  /\ pc' = [pc EXCEPT ![p] = "failed"]
  /\ trace' = [trace EXCEPT ![p] = Append(@, pc[p])]
  /\ err' = [err EXCEPT ![p] = e]

\* the command is invoked (again)
Start(p) ==
  /\ pc[p] \in {"idle", "done", "failed"}
  /\ runs < MaxRuns
  /\ runs' = runs + 1
  /\ prev' = IF pc[p] = "done"
               THEN [status |-> "ok", models |-> schema_models[p],
                     schema |-> schema_lib[p]]
             ELSE IF pc[p] = "failed"
               THEN [status |-> "failed", models |-> <<>>, schema |-> NoSchema]
             ELSE prev
  /\ pc' = [pc EXCEPT ![p] = "validate"]
  /\ err' = [err EXCEPT ![p] = NoErr]
  /\ cargo_file' = [cargo_file EXCEPT ![p] = NoManifest]
  /\ schema_lib' = [schema_lib EXCEPT ![p] = NoSchema]
  /\ schema_models' = [schema_models EXCEPT ![p] = <<>>]
  /\ trace' = [trace EXCEPT ![p] = <<>>]
  /\ snap' = [snap EXCEPT ![p] = Snapshot(fs, workspace, builds, log)]
  /\ UNCHANGED <<fs, workspace, builds, log>>

\* ------------------------------------------------------------ Database::run
\* the condition of the `if` of lines 34-38

NameCheckNever(cf) == FALSE

NameCheckFails(cf) ==
  IF cf.package = "some" THEN cf.name # "schema" ELSE FALSE

\* lines 31-49: load the manifest, check the package name
ValidateSchemaIdentity(p) ==
  /\ pc[p] = "validate"
  /\ \E m \in Manifests :
       /\ cargo_file' = [cargo_file EXCEPT ![p] = m]
       /\ IF ~m.loads
            THEN Abort(p, Err("ManifestLoadError",
                              "could not load schema Cargo.toml file",
                              "./schema/Cargo.toml"))
          ELSE IF NameCheckFails(m)
            THEN IF m.package = "some"
                   THEN Abort(p, Err("InvalidSchemaName",
                                     "schema package must be named 'schema' but is named",
                                     m.name))
                   ELSE Abort(p, Err("MissingSchemaName",
                                     "schema package must be named 'schema'", ""))
          ELSE Advance(p, "prepare_awto_dir")
  /\ UNCHANGED <<fs, workspace, builds, log, runs, prev, schema_lib, schema_models, snap>>

\* line 51: create ./awto unless it is there already
PrepareAwtoDir(p) ==
  /\ pc[p] = "prepare_awto_dir"
  /\ \/ /\ IsDir(fs, AWTO_DIR)
        /\ fs' = fs
        /\ Advance(p, "is_dir")
     \/ /\ CanCreateDir(fs, AWTO_DIR)
        /\ fs' = CreateDir(fs, AWTO_DIR)
        /\ Advance(p, "is_dir")
     \/ /\ ~IsDir(fs, AWTO_DIR)
        /\ fs' = fs
        /\ Abort(p, Err("WorkspaceRootError", "", AWTO_DIR))
  /\ UNCHANGED <<workspace, builds, log, runs, prev, cargo_file, schema_lib,
                 schema_models, snap>>

\* --------------------------------------------- Database::prepare_database_dir
Unchanged_run == UNCHANGED <<workspace, builds, log, runs, prev, cargo_file, snap>>

\* line 83: if Path::new(DATABASE_DIR).is_dir()

CheckDatabaseDirNoReset(p) ==
  /\ pc[p] = "is_dir"
  /\ Advance(p, "create_dir")
  /\ UNCHANGED <<fs, schema_lib, schema_models>>
  /\ Unchanged_run

CheckDatabaseDirExists(p) ==
  /\ pc[p] = "is_dir"
  /\ Advance(p, IF Exists(fs, DATABASE_DIR) THEN "remove_dir_all" ELSE "create_dir")
  /\ UNCHANGED <<fs, schema_lib, schema_models>>
  /\ Unchanged_run

CheckDatabaseDir(p) ==
  /\ pc[p] = "is_dir"
  /\ Advance(p, IF IsDir(fs, DATABASE_DIR) THEN "remove_dir_all" ELSE "create_dir")
  /\ UNCHANGED <<fs, schema_lib, schema_models>>
  /\ Unchanged_run

\* lines 84-86: fs::remove_dir_all(DATABASE_DIR)

RemoveDatabaseDirSkipped(p) ==
  /\ pc[p] = "remove_dir_all"
  /\ \/ /\ IsDir(fs, DATABASE_DIR)
        /\ fs' = fs
        /\ Advance(p, IF IsDir(fs, DATABASE_SRC_DIR)
                        THEN "write_cargo" ELSE "create_src_dir")
     \/ /\ fs' \in (IF IsDir(fs, DATABASE_DIR)
                      THEN PartialRemovals(fs, DATABASE_DIR) ELSE {fs})
        /\ Abort(p, Err("DirectoryDeleteError", "could not delete directory",
                        DATABASE_DIR))
  /\ UNCHANGED <<schema_lib, schema_models>>
  /\ Unchanged_run

RemoveDatabaseDirNotFatal(p) ==
  /\ pc[p] = "remove_dir_all"
  /\ \/ /\ IsDir(fs, DATABASE_DIR)
        /\ fs' = RemoveDirAll(fs, DATABASE_DIR)
        /\ Advance(p, "create_dir")
     \/ /\ fs' \in (IF IsDir(fs, DATABASE_DIR)
                      THEN PartialRemovals(fs, DATABASE_DIR) ELSE {fs})
        /\ pc' = [pc EXCEPT ![p] = "create_dir"]
        /\ trace' = [trace EXCEPT ![p] = Append(@, pc[p])]
        /\ err' = [err EXCEPT ![p] = Err("DirectoryDeleteError",
                                         "could not delete directory",
                                         DATABASE_DIR)]
  /\ UNCHANGED <<schema_lib, schema_models>>
  /\ Unchanged_run

RemoveDatabaseDir(p) ==
  /\ pc[p] = "remove_dir_all"
  /\ \/ /\ IsDir(fs, DATABASE_DIR)
        /\ fs' = RemoveDirAll(fs, DATABASE_DIR)
        /\ Advance(p, "create_dir")
     \/ /\ fs' \in (IF IsDir(fs, DATABASE_DIR)
                      THEN PartialRemovals(fs, DATABASE_DIR) ELSE {fs})
        /\ Abort(p, Err("DirectoryDeleteError", "could not delete directory",
                        DATABASE_DIR))
  /\ UNCHANGED <<schema_lib, schema_models>>
  /\ Unchanged_run

\* lines 89-91: fs::create_dir(DATABASE_DIR)
CreateDatabaseDir(p) ==
  /\ pc[p] = "create_dir"
  /\ \/ /\ CanCreateDir(fs, DATABASE_DIR)
        /\ fs' = CreateDir(fs, DATABASE_DIR)
        /\ Advance(p, "create_src_dir")
     \/ /\ fs' = fs
        /\ Abort(p, Err("DirectoryCreateError", "could not create directory",
                        DATABASE_DIR))
  /\ UNCHANGED <<schema_lib, schema_models>>
  /\ Unchanged_run

\* lines 93-95: fs::create_dir(DATABASE_SRC_DIR)
CreateSrcDir(p) ==
  /\ pc[p] = "create_src_dir"
  /\ \/ /\ CanCreateDir(fs, DATABASE_SRC_DIR)
        /\ fs' = CreateDir(fs, DATABASE_SRC_DIR)
        /\ Advance(p, "write_cargo")
     \/ /\ fs' = fs
        /\ Abort(p, Err("DirectoryCreateError", "could not create directory",
                        DATABASE_SRC_DIR))
  /\ UNCHANGED <<schema_lib, schema_models>>
  /\ Unchanged_run

\* lines 97-99: fs::write(DATABASE_CARGO_PATH, DATABASE_CARGO_TOML_BYTES)
WriteCargoToml(p) ==
  /\ pc[p] = "write_cargo"
  /\ \/ /\ CanWrite(fs, DATABASE_CARGO_PATH)
        /\ fs' = WriteFile(fs, DATABASE_CARGO_PATH, DATABASE_CARGO_TOML_BYTES)
        /\ Advance(p, "write_build")
     \/ /\ fs' \in FailedWrites(fs, DATABASE_CARGO_PATH)
        /\ Abort(p, Err("FileWriteError", "could not write file", DATABASE_CARGO_PATH))
  /\ UNCHANGED <<schema_lib, schema_models>>
  /\ Unchanged_run

WriteBuildRsStamped(p) ==
  /\ pc[p] = "write_build"
  /\ \/ /\ CanWrite(fs, DATABASE_BUILD_PATH)
        /\ fs' = WriteFile(fs, DATABASE_BUILD_PATH,
                           IF runs > 1 THEN StaleBytes ELSE DATABASE_BUILD_BYTES)
        /\ Advance(p, "read_schema_models")
     \/ /\ fs' \in FailedWrites(fs, DATABASE_BUILD_PATH)
        /\ Abort(p, Err("FileWriteError", "could not write file", DATABASE_BUILD_PATH))
  /\ UNCHANGED <<schema_lib, schema_models>>
  /\ Unchanged_run

\* lines 101-103: fs::write(DATABASE_BUILD_PATH, DATABASE_BUILD_BYTES)
WriteBuildRs(p) ==
  /\ pc[p] = "write_build"
  /\ \/ /\ CanWrite(fs, DATABASE_BUILD_PATH)
        /\ fs' = WriteFile(fs, DATABASE_BUILD_PATH, DATABASE_BUILD_BYTES)
        /\ Advance(p, "read_schema_models")
     \/ /\ fs' \in FailedWrites(fs, DATABASE_BUILD_PATH)
        /\ Abort(p, Err("FileWriteError", "could not write file", DATABASE_BUILD_PATH))
  /\ UNCHANGED <<schema_lib, schema_models>>
  /\ Unchanged_run

\* line 105: let schema_models = Self::read_schema_models().await?
\* with `file` being what ./schema/src/lib.rs holds at that moment
ReadSchemaFile(p, file) ==
  /\ pc[p] = "read_schema_models"
  /\ LET r == read_schema_models(file) IN
       /\ schema_lib' = [schema_lib EXCEPT ![p] = file]
       /\ IF r.err = NoErr
            THEN /\ schema_models' = [schema_models EXCEPT ![p] = r.models]
                 /\ Advance(p, "write_lib")
            ELSE /\ schema_models' = schema_models
                 /\ Abort(p, r.err)
  /\ UNCHANGED fs
  /\ Unchanged_run

ReadSchemaModels(p) == \E file \in RunSchemas : ReadSchemaFile(p, file)

WriteLibRsSkipsRegistration(p) ==
  /\ pc[p] = "write_lib"
  /\ \/ /\ CanWrite(fs, DATABASE_LIB_PATH)
        /\ fs' = WriteFile(fs, DATABASE_LIB_PATH, LibContent(schema_models[p]))
        /\ Advance(p, "build_awto_pkg")
     \/ /\ fs' \in FailedWrites(fs, DATABASE_LIB_PATH)
        /\ Abort(p, Err("FileWriteError", "could not write file", DATABASE_LIB_PATH))
  /\ UNCHANGED <<schema_lib, schema_models>>
  /\ Unchanged_run

\* lines 106-129: build lib_content and fs::write(DATABASE_LIB_PATH, ..)
WriteLibRs(p) ==
  /\ pc[p] = "write_lib"
  /\ \/ /\ CanWrite(fs, DATABASE_LIB_PATH)
        /\ fs' = WriteFile(fs, DATABASE_LIB_PATH, LibContent(schema_models[p]))
        /\ Advance(p, "add_package_to_workspace")
     \/ /\ fs' \in FailedWrites(fs, DATABASE_LIB_PATH)
        /\ Abort(p, Err("FileWriteError", "could not write file", DATABASE_LIB_PATH))
  /\ UNCHANGED <<schema_lib, schema_models>>
  /\ Unchanged_run

\* ----------------------------------------------- Database::run, continued
\* line 54: add_package_to_workspace("awto/database").await?

AddPackageToWorkspace(p) ==
  /\ pc[p] = "add_package_to_workspace"
  /\ \/ /\ workspace' = Append(workspace, "awto/database")
        /\ Advance(p, "build_awto_pkg")
     \/ /\ workspace' = workspace
        /\ Abort(p, Err("WorkspaceRegistrationError", "", ""))
  /\ UNCHANGED <<fs, builds, log, runs, prev, cargo_file, schema_lib,
                 schema_models, snap>>

\* line 55: build_awto_pkg("database").await?
BuildAwtoPkg(p) ==
  /\ pc[p] = "build_awto_pkg"
  /\ \/ /\ builds' = Append(builds, "database")
        /\ Advance(p, "info")
     \/ /\ builds' = builds
        /\ Abort(p, Err("BuildError", "", ""))
  /\ UNCHANGED <<fs, workspace, log, runs, prev, cargo_file, schema_lib,
                 schema_models, snap>>

\* lines 57-59: info!("compiled package 'database'"); Ok(())
LogCompiled(p) ==
  /\ pc[p] = "info"
  /\ log' = Append(log, "compiled package 'database'")
  /\ Advance(p, "done")
  /\ UNCHANGED <<fs, workspace, builds, runs, prev, cargo_file, schema_lib,
                 schema_models, snap>>

\* one statement of the invocation p
Step(p) ==
  \/ Start(p)
  \/ ValidateSchemaIdentity(p)
  \/ PrepareAwtoDir(p)
  \/ CheckDatabaseDir(p)
  \/ RemoveDatabaseDir(p)
  \/ CreateDatabaseDir(p)
  \/ CreateSrcDir(p)
  \/ WriteCargoToml(p)
  \/ WriteBuildRs(p)
  \/ ReadSchemaModels(p)
  \/ WriteLibRs(p)
  \/ AddPackageToWorkspace(p)
  \/ BuildAwtoPkg(p)
  \/ LogCompiled(p)

\* invocations are serialized: one at a time
Next == Step(1)

Spec == Init /\ [][Next]_vars

\* ------------------------------------------- read_schema_models on its own
TokenAlphabet ==
  { Ident(<<"A">>), Ident(<<"B">>), Punct(","), Literal("1"),
    Group(<<Ident(<<"C">>)>>) }

TokenSeqs == UNION { [1..n -> TokenAlphabet] : n \in 0..MaxTokens }

\* invocations whose arguments vary
MainItems ==
  { ItemMacro(path, toks) :
      path \in {<<"awto", "register_schemas">>, <<"register_schemas">>},
      toks \in TokenSeqs }

\* the items around them
SideItems ==
  { ItemMacro(<<"awto", "register_schemas">>, <<Ident(<<"B">>)>>),
    ItemMacro(<<"reg">>, <<Ident(<<"A">>)>>),
    ItemMacro(<<"other", "register_schemas">>, <<Ident(<<"A">>)>>),
    ItemMod(<<ItemMacro(<<"awto", "register_schemas">>, <<Ident(<<"A">>)>>)>>),
    ItemUse(<<"awto", "register_schemas">>, "register_schemas"),
    ItemUse(<<"awto", "register_schemas">>, "reg"),
    ItemOther }

SideItemSeqs == UNION { [1..n -> SideItems] : n \in 0..MaxItems }

\* the package directory as lines 83-103 leave it
FreshPackageDir ==
  LET empty == [q \in Paths |-> Absent]
      dirs == CreateDir(CreateDir(CreateDir(empty, AWTO_DIR), DATABASE_DIR),
                        DATABASE_SRC_DIR)
  IN WriteFile(WriteFile(dirs, DATABASE_CARGO_PATH, DATABASE_CARGO_TOML_BYTES),
               DATABASE_BUILD_PATH, DATABASE_BUILD_BYTES)

\* invocation 1 stands before statement number n, having executed the
\* statements before it (no directory to delete)
StandsBefore(n) ==
  /\ fs = FreshPackageDir
  /\ workspace = <<>>
  /\ builds = <<>>
  /\ log = <<>>
  /\ runs = 1
  /\ prev = NoRun
  /\ pc = [p \in Procs |-> IF p = 1 THEN Statements[n] ELSE "idle"]
  /\ err = [p \in Procs |-> NoErr]
  /\ cargo_file = [p \in Procs |-> IF p = 1 THEN ManifestNamed("schema") ELSE NoManifest]
  /\ schema_lib = [p \in Procs |-> NoSchema]
  /\ trace = [p \in Procs |->
                IF p = 1 THEN SelectSeq(SubSeq(Statements, 1, n - 1),
                                        LAMBDA l : l # "remove_dir_all")
                ELSE <<>>]
  /\ snap = [p \in Procs |-> Snapshot([q \in Paths |-> Absent], <<>>, <<>>, <<>>)]

InitExtract ==
  /\ StandsBefore(StatementIndex("read_schema_models"))
  /\ schema_models = [p \in Procs |-> <<>>]

\* the schema file is unreadable, unparseable, a sequence of side items, or
\* a main item with side items before and after it
ReadAnySchema(p) ==
  /\ pc[p] = "read_schema_models"
  /\ \/ \E file \in {UnreadableSchema, UnparseableSchema} : ReadSchemaFile(p, file)
     \/ \E items \in SideItemSeqs :
          \E file \in {SchemaFile(items)} : ReadSchemaFile(p, file)
     \/ \E before \in SideItemSeqs :
          \E after \in {q \in SideItemSeqs : Len(before) + Len(q) < MaxItems} :
            \E file \in {SchemaFile(before \o <<m>> \o after) : m \in MainItems} :
              ReadSchemaFile(p, file)

NextExtract == ReadAnySchema(1)

SpecExtract == InitExtract /\ [][NextExtract]_vars

\* ------------------------------------------------ the lib.rs loop on its own
NameChars == {"A", "B", "a", "_"}

Names == UNION { [1..n -> NameChars] : n \in 1..MaxNameLen }

\* the names around the one that varies
SideNames == { UserAccount, <<"a">> }

SideLists == UNION { [1..n -> SideNames] : n \in 0..MaxModels }

ModelLists ==
  SideLists
  \cup UNION { { [l EXCEPT ![k] = name] : k \in 1..Len(l), name \in Names } :
               l \in SideLists }

InitLib ==
  /\ StandsBefore(StatementIndex("write_lib"))
  /\ schema_models \in { [p \in Procs |-> IF p = 1 THEN l ELSE <<>>] : l \in ModelLists }

NextLib == WriteLibRs(1)

SpecLib == InitLib /\ [][NextLib]_vars

\* ------------------------------- two invocations on one project root
\* the statement invocation p stands at can succeed on this file system
CanProceed(p) ==
  CASE pc[p] = "prepare_awto_dir" ->
         IsDir(fs, AWTO_DIR) \/ CanCreateDir(fs, AWTO_DIR)
    [] pc[p] = "remove_dir_all" -> IsDir(fs, DATABASE_DIR)
    [] pc[p] = "create_dir" -> CanCreateDir(fs, DATABASE_DIR)
    [] pc[p] = "create_src_dir" -> CanCreateDir(fs, DATABASE_SRC_DIR)
    [] pc[p] = "write_cargo" -> CanWrite(fs, DATABASE_CARGO_PATH)
    [] pc[p] = "write_build" -> CanWrite(fs, DATABASE_BUILD_PATH)
    [] pc[p] = "write_lib" -> CanWrite(fs, DATABASE_LIB_PATH)
    [] OTHER -> TRUE

\* nothing fails by itself: the inputs are valid, the disk and the
\* collaborators work; a call returns Err only where it cannot succeed
Cooperative(p) == pc'[p] = "failed" => ~CanProceed(p)

\* project roots on which a single invocation succeeds
ConcurrentFileSystems ==
  { f \in InitialFileSystems :
      /\ f[DATABASE_DIR].kind # "file"
      /\ \A q \in {UNRELATED_FILE, UNRELATED_DIR, UNRELATED_SRC_FILE} :
           f[q] = Absent
      /\ \A q \in {DATABASE_SRC_DIR, DATABASE_CARGO_PATH, DATABASE_BUILD_PATH,
                    DATABASE_LIB_PATH} :
           Exists(f, q) <=> Exists(f, DATABASE_DIR) }

InitConcurrent ==
  /\ fs \in ConcurrentFileSystems
  /\ workspace = <<>>
  /\ builds = <<>>
  /\ log = <<>>
  /\ runs = 0
  /\ prev = NoRun
  /\ pc = [p \in Procs |-> "idle"]
  /\ err = [p \in Procs |-> NoErr]
  /\ cargo_file = [p \in Procs |-> NoManifest]
  /\ schema_lib = [p \in Procs |-> NoSchema]
  /\ schema_models = [p \in Procs |-> <<>>]
  /\ trace = [p \in Procs |-> <<>>]
  /\ snap = [p \in Procs |-> Snapshot(fs, <<>>, <<>>, <<>>)]

\* each invocation is started once; their statements interleave freely
ConcurrentStep(p) ==
  /\ pc[p] \notin {"done", "failed"}
  /\ Step(p)
  /\ Cooperative(p)

NextConcurrent == \E p \in Procs : ConcurrentStep(p)

SpecConcurrent == InitConcurrent /\ [][NextConcurrent]_vars

\* ------------------------- from read_schema_models to the end of the run
LowerUserAccount == <<"u", "s", "e", "r", "_", "a", "c", "c", "o", "u", "n", "t">>

\* the arguments of a registration: names (two of them with one snake-case
\* form), a comma, a delimited group
RegistrationTokens ==
  { Ident(UserAccount), Ident(LowerUserAccount), Ident(Post), Punct(","),
    Group(<<Ident(Post)>>) }

RegistrationTokenSeqs ==
  UNION { [1..n -> RegistrationTokens] : n \in 0..MaxModels }

\* items the scan passes over
PassedItems == { ItemOther, ItemUse(<<"awto", "register_schemas">>, "") }

PassedItemSeqs == UNION { [1..n -> PassedItems] : n \in 0..(MaxItems - 1) }

\* items after the first registration, further registrations among them
LaterItems ==
  { ItemOther,
    ItemMacro(<<"awto", "register_schemas">>, <<Ident(Post)>>),
    ItemMacro(<<"register_schemas">>, <<Ident(UserAccount), Punct(","), Ident(Post)>>),
    ItemMacro(<<"register_schemas">>, <<>>) }

LaterItemSeqs == UNION { [1..n -> LaterItems] : n \in 0..(MaxItems - 1) }

InitPackage ==
  /\ StandsBefore(StatementIndex("read_schema_models"))
  /\ schema_models = [p \in Procs |-> <<>>]

\* the schema file has no registration at all, or a first registration with
\* any arguments, items before it and items (registrations too) after it
ReadRegisteredSchema(p) ==
  /\ pc[p] = "read_schema_models"
  /\ \/ \E items \in PassedItemSeqs :
          \E file \in {SchemaFile(items)} : ReadSchemaFile(p, file)
     \/ \E before \in PassedItemSeqs :
          \E after \in {q \in LaterItemSeqs : Len(before) + Len(q) < MaxItems} :
            \E file \in {SchemaFile(before \o <<ItemMacro(path, toks)>> \o after) :
                            path \in {<<"awto", "register_schemas">>,
                                      <<"register_schemas">>},
                            toks \in RegistrationTokenSeqs} :
              ReadSchemaFile(p, file)

NextPackage ==
  \/ ReadRegisteredSchema(1)
  \/ WriteLibRs(1)
  \/ AddPackageToWorkspace(1)
  \/ BuildAwtoPkg(1)
  \/ LogCompiled(1)

SpecPackage == InitPackage /\ [][NextPackage]_vars

\* ================================================================== claims
\* the stage of the orchestrator a statement belongs to
StageOrder ==
  << "ValidateSchemaIdentity", "PrepareWorkspaceRoot", "ResetAndBuildPackage",
     "RegisterInWorkspace", "TriggerBuild", "Done" >>

StageIndexOf(l) ==
  CASE l = "validate" -> 1
    [] l = "prepare_awto_dir" -> 2
    [] l \in {"is_dir", "remove_dir_all", "create_dir", "create_src_dir",
              "write_cargo", "write_build", "read_schema_models", "write_lib"} -> 3
    [] l = "add_package_to_workspace" -> 4
    [] l = "build_awto_pkg" -> 5
    [] l \in {"info", "done"} -> 6

\* the error kinds a statement can fail with
ErrorKindsOf(l) ==
  CASE l = "validate" -> {"ManifestLoadError", "InvalidSchemaName", "MissingSchemaName"}
    [] l = "prepare_awto_dir" -> {"WorkspaceRootError"}
    [] l = "remove_dir_all" -> {"DirectoryDeleteError"}
    [] l \in {"create_dir", "create_src_dir"} -> {"DirectoryCreateError"}
    [] l \in {"write_cargo", "write_build", "write_lib"} -> {"FileWriteError"}
    [] l = "read_schema_models" -> {"SchemaReadError", "ParseError", "NoRegistrationFound"}
    [] l = "add_package_to_workspace" -> {"WorkspaceRegistrationError"}
    [] l = "build_awto_pkg" -> {"BuildError"}
    [] OTHER -> {}

InRun(p) == pc[p] \notin {"idle", "done", "failed"}

\* C1: a manifest whose package name is present and is not "schema" makes the
\* run fail with InvalidSchemaName carrying that name, after the validation
\* statement alone: the file system (workspace root and target directory
\* included), the workspace members and the builds are as the run found them.
C1_InvalidNameNoMutation ==
  ( /\ cargo_file[1].loads
    /\ cargo_file[1].package = "some"
    /\ cargo_file[1].name # "schema" )
  => /\ pc[1] = "failed"
     /\ err[1].kind = "InvalidSchemaName"
     /\ err[1].arg = cargo_file[1].name
     /\ trace[1] = <<"validate">>
     /\ fs = snap[1].fs
     /\ workspace = snap[1].workspace
     /\ builds = snap[1].builds
     /\ log = snap[1].log

C1_Witness ==
  /\ err[1].kind = "InvalidSchemaName"
  /\ err[1].arg = "my_schema"
  /\ IsDir(fs, DATABASE_DIR)
  /\ Exists(fs, UNRELATED_FILE)
  /\ runs = 2

\* C2: a manifest that loads but has no package metadata makes the validation
\* fail with MissingSchemaName, and no later statement of the run executes.
C2_MissingNameFails ==
  ( /\ cargo_file[1].loads
    /\ cargo_file[1].package = "none" )
  => /\ pc[1] = "failed"
     /\ err[1].kind = "MissingSchemaName"
     /\ trace[1] = <<"validate">>

\* C3: the statements a run has executed go through the stages
\* ValidateSchemaIdentity, PrepareWorkspaceRoot, ResetAndBuildPackage,
\* RegisterInWorkspace, TriggerBuild, Done in that order, starting with the
\* first, never skipping one and never going back; a run that has not failed
\* stands in the stage of its last statement or in the next one; Done is
\* reached only without error, after all five stages, and with exactly one
\* more log line than the run started with (none before Done).
C3_StageOrder ==
  LET t == trace[1] IN
  /\ t # <<>> => StageIndexOf(t[1]) = 1
  /\ \A i \in 1..(Len(t) - 1) :
        StageIndexOf(t[i + 1]) \in {StageIndexOf(t[i]), StageIndexOf(t[i]) + 1}
  /\ \A i, j \in 1..Len(t) : i # j => t[i] # t[j]
  /\ (InRun(1) \/ pc[1] = "done") =>
        /\ err[1] = NoErr
        /\ IF t = <<>> THEN StageIndexOf(pc[1]) = 1
           ELSE StageIndexOf(pc[1]) \in {StageIndexOf(t[Len(t)]),
                                          StageIndexOf(t[Len(t)]) + 1}
  /\ pc[1] = "done" =>
        /\ \A k \in 1..5 : \E i \in 1..Len(t) : StageIndexOf(t[i]) = k
        /\ log = Append(snap[1].log, "compiled package 'database'")
        /\ workspace = Append(snap[1].workspace, "awto/database")
        /\ builds = Append(snap[1].builds, "database")
  /\ pc[1] # "done" => log = snap[1].log

C3_Witness ==
  /\ pc[1] = "done"
  /\ runs = 2
  /\ Len(log) = 2
  /\ "remove_dir_all" \in {trace[1][i] : i \in 1..Len(trace[1])}

\* C4: once a statement of a run has failed, the run is over: the error it
\* returns is the one of the statement executed last, no statement was
\* executed twice, nothing a later statement would do has happened
\* (registration and build after a failure up to ResetAndBuildPackage, the
\* success log after any failure), and the only thing that follows is a new
\* invocation of the command.
C4_FirstErrorAborts ==
  /\ [](err[1] # NoErr =>
          LET t == trace[1] IN
          /\ pc[1] = "failed"
          /\ t # <<>>
          /\ err[1].kind \in ErrorKindsOf(t[Len(t)])
          /\ \A i, j \in 1..Len(t) : i # j => t[i] # t[j]
          /\ StageIndexOf(t[Len(t)]) <= 4 => workspace = snap[1].workspace
          /\ builds = snap[1].builds
          /\ log = snap[1].log)
  /\ [][pc[1] = "failed" =>
          /\ pc'[1] = "validate"
          /\ runs' = runs + 1
          /\ UNCHANGED <<fs, workspace, builds, log>>]_vars

C4_Witness ==
  /\ pc[1] = "failed"
  /\ err[1].kind = "FileWriteError"
  /\ err[1].arg = DATABASE_BUILD_PATH
  /\ fs[DATABASE_CARGO_PATH] = File(DATABASE_CARGO_TOML_BYTES)
  /\ ~Exists(fs, DATABASE_LIB_PATH)
  /\ workspace = snap[1].workspace

\* C5: when a run has succeeded, the target directory holds the manifest and
\* the build script with the template bytes, the directory src with the file
\* lib.rs in it, and nothing else, whatever was there when the run started.
C5_ExactlyGenerated ==
  pc[1] = "done" =>
    /\ fs[DATABASE_DIR] = Dir
    /\ fs[DATABASE_SRC_DIR] = Dir
    /\ fs[DATABASE_CARGO_PATH] = File(DATABASE_CARGO_TOML_BYTES)
    /\ fs[DATABASE_BUILD_PATH] = File(DATABASE_BUILD_BYTES)
    /\ fs[DATABASE_LIB_PATH].kind = "file"
    /\ \A q \in Paths :
          (Under(q, DATABASE_DIR) /\ Exists(fs, q)) =>
             q \in {DATABASE_SRC_DIR, DATABASE_CARGO_PATH, DATABASE_BUILD_PATH,
                    DATABASE_LIB_PATH}

C5_Witness ==
  /\ pc[1] = "done"
  /\ Exists(snap[1].fs, UNRELATED_FILE)
  /\ Exists(snap[1].fs, UNRELATED_DIR)
  /\ Exists(snap[1].fs, UNRELATED_SRC_FILE)
  /\ snap[1].fs[DATABASE_CARGO_PATH] = File(StaleBytes)

\* the models named by the doc comments of a generated lib.rs, in file order
IsDocLine(line) ==
  IF Len(line) < 2 THEN FALSE
  ELSE line[1] = "/// " /\ line[Len(line)] = " database model"

DocModels(content) ==
  LET docs == SelectSeq(content, IsDocLine)
  IN [k \in 1..Len(docs) |-> SubSeq(docs[k], 2, Len(docs[k]) - 1)]

\* the names of the modules of a generated lib.rs, in file order
IsModLine(line) ==
  IF Len(line) < 2 THEN FALSE
  ELSE line[1] = "pub mod " /\ line[Len(line)] = " {"

ModNames(content) ==
  LET mods == SelectSeq(content, IsModLine)
  IN [k \in 1..Len(mods) |-> SubSeq(mods[k], 2, Len(mods[k]) - 1)]

Range(seq) == {seq[i] : i \in 1..Len(seq)}

\* C6: when a run has succeeded right after another successful run that
\* registered a different model list, lib.rs has one module block per model
\* of the second list, in the order of that list, and names no model that
\* only the first list had.
C6_SecondListOnly ==
  ( /\ pc[1] = "done"
    /\ prev.status = "ok"
    /\ prev.models # schema_models[1] )
  => LET lib == fs[DATABASE_LIB_PATH].data IN
     /\ DocModels(lib) = schema_models[1]
     /\ Len(ModNames(lib)) = Len(schema_models[1])
     /\ \A m \in Range(prev.models) \ Range(schema_models[1]) :
           m \notin Range(DocModels(lib))

C6_Witness ==
  /\ pc[1] = "done"
  /\ prev.status = "ok"
  /\ prev.models = <<UserAccount>>
  /\ schema_models[1] = <<Post, UserAccount>>
  /\ DocModels(fs[DATABASE_LIB_PATH].data) = <<Post, UserAccount>>

\* the spellings line 150 compares the macro path with
IsRegistrationInvocation(item) ==
  /\ item.kind = "macro"
  /\ item.path \in {<<"awto", "register_schemas">>, <<"register_schemas">>}

HasRegistration(items) == \E i \in 1..Len(items) : IsRegistrationInvocation(items[i])

FirstRegistration(items) ==
  CHOOSE i \in 1..Len(items) :
    /\ IsRegistrationInvocation(items[i])
    /\ \A j \in 1..(i - 1) : ~IsRegistrationInvocation(items[j])

\* `models` lists the texts of the identifier tokens of `toks`, nothing else,
\* in the order of `toks`
ListsIdentifiersOf(models, toks) ==
  LET idx == {i \in 1..Len(toks) : toks[i].kind = "ident"} IN
  /\ Len(models) = Cardinality(idx)
  /\ \A i \in idx : models[Cardinality({j \in idx : j <= i})] = toks[i].text

Parsed(file) == file.readable /\ file.parses

\* C7: when the schema source parses and has a top-level registration
\* invocation, read_schema_models succeeds and returns the names of the
\* identifier tokens of the first such invocation, left to right, and
\* nothing else (commas and delimited groups contribute nothing).
C7_IdentifiersInOrder ==
  (Parsed(schema_lib[1]) /\ HasRegistration(schema_lib[1].items))
  => LET items == schema_lib[1].items
         toks == items[FirstRegistration(items)].tokens
     IN /\ pc[1] = "write_lib"
        /\ err[1] = NoErr
        /\ ListsIdentifiersOf(schema_models[1], toks)

C7_Witness ==
  /\ pc[1] = "write_lib"
  /\ Len(schema_lib[1].items) = 1
  /\ schema_lib[1].items[1].tokens = <<Ident(<<"B">>), Punct(","), Ident(<<"A">>)>>
  /\ schema_models[1] = << <<"B">>, <<"A">> >>

\* C8: when the schema source parses and none of its top-level items is a
\* registration invocation (one nested in a module does not count),
\* read_schema_models fails with NoRegistrationFound and no model list, and
\* the error names the invocation syntax.
C8_NoRegistrationFound ==
  (Parsed(schema_lib[1]) /\ ~HasRegistration(schema_lib[1].items))
  => /\ pc[1] = "failed"
     /\ err[1].kind = "NoRegistrationFound"
     /\ err[1].arg = "awto::register_schemas!(SchemaOne, SchemaTwo)"
     /\ schema_models[1] = <<>>
     /\ ~Exists(fs, DATABASE_LIB_PATH)

C8_Witness ==
  /\ err[1].kind = "NoRegistrationFound"
  /\ Parsed(schema_lib[1])
  /\ \E i \in 1..Len(schema_lib[1].items) :
        /\ schema_lib[1].items[i].kind = "mod"
        /\ HasRegistration(schema_lib[1].items[i].inner)

\* the local names the source's `use` declarations bind to the marker
MarkerAliases(items) ==
  { items[i].alias : i \in { j \in 1..Len(items) :
                               /\ items[j].kind = "use"
                               /\ items[j].path = <<"awto", "register_schemas">> } }

\* a macro item that names the marker, by its full path or by an alias
ResolvesToMarker(item, items) ==
  /\ item.kind = "macro"
  /\ \/ item.path = <<"awto", "register_schemas">>
     \/ Len(item.path) = 1 /\ item.path[1] \in MarkerAliases(items)

FirstResolving(items) ==
  CHOOSE i \in 1..Len(items) :
    /\ ResolvesToMarker(items[i], items)
    /\ \A j \in 1..(i - 1) : ~ResolvesToMarker(items[j], items)

\* the source with item i spelled by its full path
Requalified(file, i) ==
  [file EXCEPT !.items[i].path = <<"awto", "register_schemas">>]

\* C9 as stated: whenever the first top-level invocation that names the
\* marker does so through a local alias bound by a `use` declaration,
\* read_schema_models succeeds and returns that invocation's identifiers.
C9_AnyAliasRecognized ==
  ( /\ Parsed(schema_lib[1])
    /\ \E i \in 1..Len(schema_lib[1].items) :
          ResolvesToMarker(schema_lib[1].items[i], schema_lib[1].items)
    /\ Len(schema_lib[1].items[FirstResolving(schema_lib[1].items)].path) = 1 )
  => LET items == schema_lib[1].items IN
     /\ pc[1] = "write_lib"
     /\ ListsIdentifiersOf(schema_models[1], items[FirstResolving(items)].tokens)

\* C9 amended: whenever the marker is imported under its own name
\* (`use awto::register_schemas;`) and the first top-level registration
\* invocation is spelled with that bare name, read_schema_models succeeds,
\* returns that invocation's identifiers, and returns what it returns for the
\* same source with the invocation spelled awto::register_schemas.
C9_BareNameRecognized ==
  ( /\ Parsed(schema_lib[1])
    /\ "register_schemas" \in MarkerAliases(schema_lib[1].items)
    /\ HasRegistration(schema_lib[1].items)
    /\ schema_lib[1].items[FirstRegistration(schema_lib[1].items)].path
         = <<"register_schemas">> )
  => LET items == schema_lib[1].items
         i == FirstRegistration(items)
         qualified == read_schema_models(Requalified(schema_lib[1], i))
     IN /\ pc[1] = "write_lib"
        /\ err[1] = NoErr
        /\ ListsIdentifiersOf(schema_models[1], items[i].tokens)
        /\ qualified.err = NoErr
        /\ qualified.models = schema_models[1]

C9_Witness ==
  /\ pc[1] = "write_lib"
  /\ Len(schema_lib[1].items) = 2
  /\ schema_lib[1].items[1] = ItemUse(<<"awto", "register_schemas">>, "register_schemas")
  /\ schema_lib[1].items[2] =
       ItemMacro(<<"register_schemas">>, <<Ident(<<"A">>), Punct(","), Ident(<<"B">>)>>)
  /\ schema_models[1] = << <<"A">>, <<"B">> >>

\* C10: when lib.rs has been written for the model list L, it is the five
\* header lines followed by one block of five lines per model, the k-th
\* block for L[k]: a blank line, the doc comment naming L[k] as declared, the
\* module named to_snake_case(L[k]), the include_model! of that same name,
\* and the closing brace; module names have no upper-case letters, and
\* UserAccount gives module user_account with include parameter user_account.
C10_LibBlocks ==
  pc[1] = "add_package_to_workspace" =>
    LET lib == fs[DATABASE_LIB_PATH].data
        L == schema_models[1]
        user_account == <<"u", "s", "e", "r", "_", "a", "c", "c", "o", "u", "n", "t">>
    IN
    /\ fs[DATABASE_LIB_PATH].kind = "file"
    /\ Len(lib) = 5 + 5 * Len(L)
    /\ SubSeq(lib, 1, 5) = LibHeader
    /\ \A k \in 1..Len(L) :
          LET at == 5 * k
              name == SubSeq(lib[at + 3], 2, Len(lib[at + 3]) - 1)
          IN /\ lib[at + 1] = <<>>
             /\ lib[at + 2] = <<"/// ">> \o L[k] \o <<" database model">>
             /\ lib[at + 3] = <<"pub mod ">> \o name \o <<" {">>
             /\ lib[at + 4] = <<"    sea_orm::include_model!(\"">> \o name \o <<"\");">>
             /\ lib[at + 5] = <<"}">>
             /\ name = to_snake_case(L[k])
             /\ \A i \in 1..Len(name) : ~IsUppercase(name[i])
             /\ L[k] = UserAccount => name = user_account

C10_Witness ==
  /\ pc[1] = "add_package_to_workspace"
  /\ schema_models[1] = <<UserAccount>>
  /\ ModNames(fs[DATABASE_LIB_PATH].data) =
       << <<"u", "s", "e", "r", "_", "a", "c", "c", "o", "u", "n", "t">> >>


\* C11: when a run has succeeded right after another successful run that
\* read the same schema source, it extracted the same model list, and the
\* file system (the target directory with its module names and every byte of
\* its three files) is what the earlier run left: the second run changed
\* nothing.
C11_SameSchemaSameOutput ==
  ( /\ pc[1] = "done"
    /\ prev.status = "ok"
    /\ prev.schema = schema_lib[1] )
  => /\ schema_models[1] = prev.models
     /\ ModNames(fs[DATABASE_LIB_PATH].data)
          = ModNames(snap[1].fs[DATABASE_LIB_PATH].data)
     /\ ModNames(fs[DATABASE_LIB_PATH].data)
          = [k \in 1..Len(prev.models) |-> to_snake_case(prev.models[k])]
     /\ fs = snap[1].fs

C11_Witness ==
  /\ pc[1] = "done"
  /\ prev.status = "ok"
  /\ prev.schema = schema_lib[1]
  /\ schema_models[1] = <<Post, UserAccount>>
  /\ "remove_dir_all" \in Range(trace[1])
  /\ fs = snap[1].fs

\* what ./awto/database is and holds
TargetTree(f) ==
  [q \in {q \in Paths : q = DATABASE_DIR \/ Under(q, DATABASE_DIR)} |-> f[q]]

MaterializerStatements ==
  {"remove_dir_all", "create_dir", "create_src_dir", "write_cargo",
   "write_build", "write_lib"}

SchemaErrorKinds == {"SchemaReadError", "ParseError", "NoRegistrationFound"}

\* C12: a run that fails reading the schema source, parsing it or finding
\* the registration has executed no deletion, directory creation or file
\* write under the target directory before that, and the target directory is
\* as the run found it.
C12_ExtractorBeforeMaterializer ==
  err[1].kind \in SchemaErrorKinds
  => /\ Range(trace[1]) \cap MaterializerStatements = {}
     /\ TargetTree(fs) = TargetTree(snap[1].fs)

\* C13: when a run has succeeded right after a failed run, whatever that
\* failed run left of the target directory (nothing, an empty directory, some
\* of the files, stale entries of an older package), the target directory
\* holds exactly Cargo.toml, build.rs and src/lib.rs with the generated
\* bytes for the model list the succeeding run read.
C13_RecoversFromPartialState ==
  ( pc[1] = "done" /\ prev.status = "failed" )
  => /\ fs[DATABASE_DIR] = Dir
     /\ fs[DATABASE_SRC_DIR] = Dir
     /\ fs[DATABASE_CARGO_PATH] = File(DATABASE_CARGO_TOML_BYTES)
     /\ fs[DATABASE_BUILD_PATH] = File(DATABASE_BUILD_BYTES)
     /\ fs[DATABASE_LIB_PATH] = File(LibContent(schema_models[1]))
     /\ \A q \in {UNRELATED_FILE, UNRELATED_DIR, UNRELATED_SRC_FILE} :
          fs[q] = Absent

\* the failed run left the directory without its lib.rs (deleted and not
\* recreated, or written in part) and the next run rebuilt it
C13_Witness ==
  /\ pc[1] = "done"
  /\ prev.status = "failed"
  /\ snap[1].fs[DATABASE_LIB_PATH] = Absent
  /\ snap[1].fs[DATABASE_DIR] = Dir
  /\ snap[1].fs[DATABASE_CARGO_PATH] # Absent
  /\ fs[DATABASE_LIB_PATH] = File(LibContent(schema_models[1]))
  /\ schema_models[1] # <<>>

\* C14: a run whose removal of the existing target directory failed has
\* failed with DirectoryDeleteError naming ./awto/database; the removal was
\* its last statement and ran once, no directory creation or file write came
\* after it, and nothing has appeared in the file system since the run
\* began.
C14_DeleteFailureIsFatal ==
  err[1].kind = "DirectoryDeleteError"
  => /\ pc[1] = "failed"
     /\ err[1].arg = DATABASE_DIR
     /\ snap[1].fs[DATABASE_DIR] = Dir
     /\ trace[1][Len(trace[1])] = "remove_dir_all"
     /\ Cardinality({k \in 1..Len(trace[1]) : trace[1][k] = "remove_dir_all"}) = 1
     /\ Range(trace[1]) \cap (MaterializerStatements \ {"remove_dir_all"}) = {}
     /\ \A q \in Paths : fs[q] \in {snap[1].fs[q], Absent}

\* the deletion failed half way: part of the old package is gone
C14_Witness ==
  /\ err[1].kind = "DirectoryDeleteError"
  /\ pc[1] = "failed"
  /\ fs[DATABASE_DIR] = Dir
  /\ fs[DATABASE_CARGO_PATH] = Absent
  /\ snap[1].fs[DATABASE_CARGO_PATH] # Absent
  /\ fs[DATABASE_LIB_PATH] # Absent

\* C20: when a run finds ./awto/database to be a regular file and has gone
\* past the directory test, it never executes the removal; once it has
\* executed the creation of ./awto/database it has failed there with
\* DirectoryCreateError naming that path, and the file is still in place
\* with its content.
C20_FileAtTargetPath ==
  ( snap[1].fs[DATABASE_DIR].kind = "file" /\ "is_dir" \in Range(trace[1]) )
  => /\ "remove_dir_all" \notin Range(trace[1])
     /\ pc[1] \in {"create_dir", "failed"}
     /\ fs[DATABASE_DIR] = snap[1].fs[DATABASE_DIR]
     /\ pc[1] = "failed"
          => /\ err[1].kind = "DirectoryCreateError"
             /\ err[1].arg = DATABASE_DIR
             /\ trace[1][Len(trace[1])] = "create_dir"
             /\ fs = snap[1].fs

C20_Witness ==
  /\ snap[1].fs[DATABASE_DIR] = File(StaleBytes)
  /\ pc[1] = "failed"
  /\ err[1] = Err("DirectoryCreateError", "could not create directory", DATABASE_DIR)
  /\ fs[DATABASE_DIR] = File(StaleBytes)

\* C16: when the run has failed in add_package_to_workspace or in
\* build_awto_pkg, the error it returns carries, in front of the
\* collaborator's error, a context that names the stage.
C16_CollaboratorErrorPrefixed ==
  ( pc[1] = "failed"
    /\ trace[1][Len(trace[1])] \in {"add_package_to_workspace", "build_awto_pkg"} )
  => err[1].context # ""

RegistrationsOf(items) ==
  SelectSeq(items, IsRegistrationInvocation)

IdentTextsOf(toks) == {toks[k].text : k \in {k \in 1..Len(toks) : toks[k].kind = "ident"}}

\* lib.rs has been written by the run
LibWritten(p) ==
  pc[p] \in {"add_package_to_workspace", "build_awto_pkg", "info", "done"}

\* C17: when the schema source has more than one top-level registration
\* invocation, the model list is the identifiers of the first of them, and
\* the written lib.rs has the blocks of that list and no other line: a name
\* that only later invocations list is in no doc comment, and every module
\* name is the snake-case form of a name of the first invocation.
C17_FirstRegistrationOnly ==
  ( Parsed(schema_lib[1]) /\ Len(RegistrationsOf(schema_lib[1].items)) > 1 )
  => LET regs == RegistrationsOf(schema_lib[1].items)
         later == UNION {IdentTextsOf(regs[k].tokens) : k \in 2..Len(regs)}
                    \ IdentTextsOf(regs[1].tokens)
     IN /\ err[1].kind \notin SchemaErrorKinds
        /\ ListsIdentifiersOf(schema_models[1], regs[1].tokens)
        /\ Range(schema_models[1]) \cap later = {}
        /\ LibWritten(1)
             => /\ DocModels(fs[DATABASE_LIB_PATH].data) = schema_models[1]
                /\ Range(DocModels(fs[DATABASE_LIB_PATH].data)) \cap later = {}
                /\ ModNames(fs[DATABASE_LIB_PATH].data)
                     = [k \in 1..Len(schema_models[1]) |->
                          to_snake_case(schema_models[1][k])]
                /\ Len(fs[DATABASE_LIB_PATH].data)
                     = Len(LibHeader) + 5 * Len(schema_models[1])

\* the first registration lists LowerUserAccount, a later one Post
C17_Witness ==
  /\ pc[1] = "done"
  /\ Parsed(schema_lib[1])
  /\ Len(RegistrationsOf(schema_lib[1].items)) > 1
  /\ schema_models[1] = <<LowerUserAccount>>
  /\ \E k \in 2..Len(RegistrationsOf(schema_lib[1].items)) :
       Post \in IdentTextsOf(RegistrationsOf(schema_lib[1].items)[k].tokens)
  /\ ModNames(fs[DATABASE_LIB_PATH].data) = <<LowerUserAccount>>

\* two different names at two places of the list have one snake-case form
Collides(models) ==
  \E i, j \in 1..Len(models) :
    /\ i < j
    /\ models[i] # models[j]
    /\ to_snake_case(models[i]) = to_snake_case(models[j])

\* C18: when the model list holds two different names with the same
\* snake-case form, the run does not fail on that: once lib.rs is written
\* it holds one block per name of the list, in list order, each with the
\* name in its doc comment and the snake-case form as its module name, so
\* the same module name stands at both places.
C18_CollidingNamesKept ==
  Collides(schema_models[1])
  => /\ err[1].kind \in {"none", "FileWriteError", "WorkspaceRegistrationError",
                         "BuildError"}
     /\ LibWritten(1)
          => LET content == fs[DATABASE_LIB_PATH].data
                 models == schema_models[1]
             IN /\ Len(content) = Len(LibHeader) + 5 * Len(models)
                /\ DocModels(content) = models
                /\ ModNames(content)
                     = [k \in 1..Len(models) |-> to_snake_case(models[k])]
                /\ \E i, j \in 1..Len(models) :
                     /\ i < j
                     /\ models[i] # models[j]
                     /\ ModNames(content)[i] = ModNames(content)[j]

C18_Witness ==
  /\ pc[1] = "done"
  /\ schema_models[1] = <<UserAccount, LowerUserAccount>>
  /\ ModNames(fs[DATABASE_LIB_PATH].data) = <<LowerUserAccount, LowerUserAccount>>
  /\ log = <<"compiled package 'database'">>

\* the first registration of the file has no identifier among its tokens
FirstRegistrationHasNoIdent(file) ==
  /\ Parsed(file)
  /\ HasRegistration(file.items)
  /\ \A k \in 1..Len(file.items[FirstRegistration(file.items)].tokens) :
       file.items[FirstRegistration(file.items)].tokens[k].kind # "ident"

\* C19: when the first top-level registration invocation has no identifier
\* among its tokens (no tokens, or commas and groups only), extraction
\* succeeds with the empty list; the run goes on, the lib.rs it writes is the
\* fixed header with no module, and the last statements register the
\* package, trigger the build and report.
C19_EmptyRegistrationMatches ==
  FirstRegistrationHasNoIdent(schema_lib[1])
  => /\ err[1].kind \notin SchemaErrorKinds
     /\ schema_models[1] = <<>>
     /\ pc[1] # "read_schema_models"
     /\ LibWritten(1)
          => /\ fs[DATABASE_LIB_PATH] = File(LibHeader)
             /\ ModNames(fs[DATABASE_LIB_PATH].data) = <<>>
     /\ pc[1] = "done"
          => /\ workspace = <<"awto/database">>
             /\ builds = <<"database">>
             /\ log = <<"compiled package 'database'">>

\* a registration holding a comma and a group only, the run is over
C19_Witness ==
  /\ FirstRegistrationHasNoIdent(schema_lib[1])
  /\ schema_lib[1].items[FirstRegistration(schema_lib[1].items)].tokens
       = <<Punct(","), Group(<<Ident(Post)>>)>>
  /\ pc[1] = "done"
  /\ fs[DATABASE_LIB_PATH] = File(LibHeader)
  /\ builds = <<"database">>

\* C15: two invocations run on one project root on which either would
\* succeed alone, and no call fails by itself. An invocation then fails only
\* after the other one has deleted, created or written under the target
\* directory, and it fails in its own deletion (the other has deleted the
\* directory already), creation (the other has created the directory
\* already, or deleted the parent) or write (the other has deleted the
\* directory written to): such failures come from the interleaving alone,
\* and they happen.
C15_InterleavingFailsARun ==
  \A p \in Procs :
    pc[p] = "failed"
    => /\ Range(trace[3 - p]) \cap MaterializerStatements # {}
       /\ trace[p][Len(trace[p])] \in MaterializerStatements
       /\ err[p].kind \in {"DirectoryDeleteError", "DirectoryCreateError",
                           "FileWriteError"}
       /\ err[p].kind = "DirectoryDeleteError"
            => "remove_dir_all" \in Range(trace[3 - p])
       /\ err[p].kind = "DirectoryCreateError"
            => {"remove_dir_all", "create_dir", "create_src_dir"}
                 \cap Range(trace[3 - p]) # {}
       /\ err[p].kind = "FileWriteError"
            => "remove_dir_all" \in Range(trace[3 - p])

\* both found the directory absent; one created it and went on to the end,
\* the other's create_dir found it there
C15_Witness ==
  \E p \in Procs :
    /\ pc[p] = "failed"
    /\ err[p] = Err("DirectoryCreateError", "could not create directory", DATABASE_DIR)
    /\ "remove_dir_all" \notin Range(trace[p])
    /\ pc[3 - p] = "done"
    /\ "remove_dir_all" \notin Range(trace[3 - p])

====
